---- MODULE Spec2Model ----
(***************************************************************************)
(* The Snake game of src/components/Frame.tsx (component SnakeGame) as a   *)
(* state machine.  The state is the six useState cells of the component;   *)
(* the operations are its handlers (moveSnake, handleDirectionClick,       *)
(* togglePause, resetGame) and the buttons that call them.  The preview   *)
(* image route of src/app/opengraph-image.tsx (loadFont, initializeFonts,  *)
(* Image) is modelled beside it; the two share no state.                   *)
(***************************************************************************)
EXTENDS Integers, Sequences, FiniteSets, TLC

\* ---------------------------------------------------------------- constants

\* const GRID_SIZE = 15
GRID_SIZE == 15

\* the reward of one food: setScore(score + 10)
FOOD_SCORE == 10

\* ------------------------------------------------------------------- bounds

\* Math.random() is sampled at the points k / RandomSteps, k in 0..RandomSteps-1.
RandomSteps == 1

\* A game is followed until this many foods have been eaten since the last reset.
MaxFoods == 1

\* A font file that can be read holds one of this many contents.
FontVersions == 2

\* ---------------------------------------------------------------- DIRECTIONS

UP == [x |-> 0, y |-> -1]
DOWN == [x |-> 0, y |-> 1]
LEFT == [x |-> -1, y |-> 0]
RIGHT == [x |-> 1, y |-> 0]

DIRECTIONS == {UP, DOWN, LEFT, RIGHT}

\* -------------------------------------------------------------------- state

\* the six useState cells of the component
VARIABLES snake, food, direction, gameOver, score, isPaused

vars == <<snake, food, direction, gameOver, score, isPaused>>

\* ticks: the number of ticks applied in a row to a running game since the
\* last other operation, counted up to GRID_SIZE.  No operation reads it.
VARIABLE ticks

\* The image route.  files: what readFileSync finds at each path;
\* imageOptions: the module's cache; pc, regularFont: where the running Image()
\* call stands and the font it holds; reads: the paths the last call read, in
\* order; outcome: what the last call returned or threw.
VARIABLES files, imageOptions, pc, regularFont, reads, outcome

fontVars == <<files, imageOptions, pc, regularFont, reads, outcome>>

allVars == <<snake, food, direction, gameOver, score, isPaused, ticks,
             files, imageOptions, pc, regularFont, reads, outcome>>

\* useState([{x:7,y:7},{x:6,y:7},{x:5,y:7}])
InitialSnake == <<[x |-> 7, y |-> 7], [x |-> 6, y |-> 7], [x |-> 5, y |-> 7]>>

\* useState({x:10,y:7})
InitialFood == [x |-> 10, y |-> 7]

\* what the component shows: "Game Over!" before "Paused"
Status == IF gameOver THEN "OVER" ELSE IF isPaused THEN "PAUSED" ELSE "RUNNING"

Init ==
    /\ snake = InitialSnake
    /\ food = InitialFood
    /\ direction = RIGHT
    /\ gameOver = FALSE
    /\ score = 0
    /\ isPaused = FALSE

\* ------------------------------------------------------------- generateFood

\* Math.floor(Math.random() * GRID_SIZE) at the sampled values of Math.random()
RandomCoordinates == {(k * GRID_SIZE) \div RandomSteps : k \in 0..(RandomSteps - 1)}

\* the cells generateFood() can return
generateFood == {[x |-> cx, y |-> cy] : cx \in RandomCoordinates, cy \in RandomCoordinates}

\* ---------------------------------------------------------------- moveSnake

\* mutant: the guard forgets isPaused
HaltedOnlyWhenOver == gameOver

\* mutant: the guard forgets gameOver
HaltedOnlyWhenPaused == isPaused

\* if (gameOver || isPaused) return
Halted == gameOver \/ isPaused

\* const head = {...newSnake[0]}; head.x += direction.x; head.y += direction.y
NewHead == [x |-> snake[1].x + direction.x, y |-> snake[1].y + direction.y]

\* mutant: > for >= at the right and bottom walls
WallCollisionOffByOne(head) ==
    head.x < 0 \/ head.x > GRID_SIZE \/ head.y < 0 \/ head.y > GRID_SIZE

\* head.x < 0 || head.x >= GRID_SIZE || head.y < 0 || head.y >= GRID_SIZE
WallCollision(head) ==
    head.x < 0 \/ head.x >= GRID_SIZE \/ head.y < 0 \/ head.y >= GRID_SIZE

\* mutant: the loop starts after the neck (i = 2)
SelfCollisionSkippingNeck(head, s) ==
    \E i \in 3..Len(s) : s[i].x = head.x /\ s[i].y = head.y

\* for (i = 0; i < newSnake.length; i++) if (newSnake[i] equals head) ...
SelfCollision(head, s) ==
    \E i \in 1..Len(s) : s[i].x = head.x /\ s[i].y = head.y

\* head.x === food.x && head.y === food.y
FoodEaten(head, f) == head.x = f.x /\ head.y = f.y

\* mutant: the tail is popped although the food was eaten
GrownButPopped(head, s) == <<head>> \o SubSeq(s, 1, Len(s) - 1)

\* newSnake.unshift(head), no pop
Grown(head, s) == <<head>> \o s

\* mutant: shift for pop, the old head is removed instead of the tail
MovedByShift(head, s) == <<head>> \o Tail(s)

\* newSnake.unshift(head); newSnake.pop()
Moved(head, s) == <<head>> \o SubSeq(s, 1, Len(s) - 1)

moveSnake ==
    IF Halted
    THEN UNCHANGED vars
    ELSE IF WallCollision(NewHead)
    THEN /\ gameOver' = TRUE
         /\ UNCHANGED <<snake, food, direction, score, isPaused>>
    ELSE IF SelfCollision(NewHead, snake)
    THEN /\ gameOver' = TRUE
         /\ UNCHANGED <<snake, food, direction, score, isPaused>>
    ELSE IF FoodEaten(NewHead, food)
    THEN /\ score < MaxFoods * FOOD_SCORE
         /\ score' = score + FOOD_SCORE
         /\ food' \in generateFood
         /\ snake' = Grown(NewHead, snake)
         /\ UNCHANGED <<direction, gameOver, isPaused>>
    ELSE /\ snake' = Moved(NewHead, snake)
         /\ UNCHANGED <<food, direction, gameOver, score, isPaused>>

\* ----------------------------------------------------- handleDirectionClick

\* mutant: the fourth pair repeats the third
OppositeMissingPair(d, n) ==
    \/ d = UP /\ n = DOWN
    \/ d = DOWN /\ n = UP
    \/ d = LEFT /\ n = RIGHT
    \/ d = LEFT /\ n = RIGHT

\* the four pairs of the 180-degree check
Opposite(d, n) ==
    \/ d = UP /\ n = DOWN
    \/ d = DOWN /\ n = UP
    \/ d = LEFT /\ n = RIGHT
    \/ d = RIGHT /\ n = LEFT

\* the direction after handleDirectionClick(newDirection) in direction d
Turned(d, newDirection) == IF Opposite(d, newDirection) THEN d ELSE newDirection

handleDirectionClick(newDirection) ==
    /\ direction' = Turned(direction, newDirection)
    /\ UNCHANGED <<snake, food, gameOver, score, isPaused>>

\* ---------------------------------------------------------------- resetGame

\* mutant: setIsPaused(false) is missing
resetGameKeepsPause ==
    /\ snake' = InitialSnake
    /\ direction' = RIGHT
    /\ food' \in generateFood
    /\ gameOver' = FALSE
    /\ score' = 0
    /\ UNCHANGED isPaused

\* mutant: setScore(0) is missing
resetGameKeepsScore ==
    /\ snake' = InitialSnake
    /\ direction' = RIGHT
    /\ food' \in generateFood
    /\ gameOver' = FALSE
    /\ UNCHANGED score
    /\ isPaused' = FALSE

resetGame ==
    /\ snake' = InitialSnake
    /\ direction' = RIGHT
    /\ food' \in generateFood
    /\ gameOver' = FALSE
    /\ score' = 0
    /\ isPaused' = FALSE

\* -------------------------------------------------------------- togglePause

\* mutant: setIsPaused(true) for setIsPaused(!isPaused)
togglePauseOnlyPauses ==
    /\ isPaused' = TRUE
    /\ UNCHANGED <<snake, food, direction, gameOver, score>>

togglePause ==
    /\ isPaused' = ~isPaused
    /\ UNCHANGED <<snake, food, direction, gameOver, score>>

\* ------------------------------------------------------------- the controls

\* mutant: the direction buttons are never disabled
DirectionNeverDisabled == FALSE

\* the direction buttons: disabled={gameOver}
DirectionDisabled == gameOver

\* the Move button: disabled={gameOver || isPaused}
MoveDisabled == gameOver \/ isPaused

\* a direction button: onClick={() => handleDirectionClick(d)}
DirectionButton(d) ==
    IF DirectionDisabled THEN UNCHANGED vars ELSE handleDirectionClick(d)

\* mutant: onClick={togglePause}, whatever gameOver is
PauseButtonOnly == togglePause

\* the middle button: onClick={gameOver ? resetGame : togglePause}
PauseResetButton ==
    IF gameOver THEN resetGame ELSE togglePause

\* the Move button: onClick={handleMove}, handleMove calls moveSnake
MoveButton ==
    IF MoveDisabled THEN UNCHANGED vars ELSE moveSnake

Next ==
    \/ \E d \in DIRECTIONS : DirectionButton(d) /\ UNCHANGED <<ticks, fontVars>>
    \/ PauseResetButton /\ UNCHANGED <<ticks, fontVars>>
    \/ MoveButton /\ UNCHANGED <<ticks, fontVars>>

\* ------------------------------------------------- the handlers on their own

HandlerNext ==
    \/ \E d \in DIRECTIONS : handleDirectionClick(d) /\ UNCHANGED <<ticks, fontVars>>
    \/ moveSnake /\ UNCHANGED <<ticks, fontVars>>
    \/ togglePause /\ UNCHANGED <<ticks, fontVars>>
    \/ resetGame /\ UNCHANGED <<ticks, fontVars>>

\* ------------------------------------------------ ticks in a row (observer)

TickCounted ==
    ticks' = IF Halted THEN ticks ELSE IF ticks < GRID_SIZE THEN ticks + 1 ELSE ticks

TickNext ==
    \/ \E d \in DIRECTIONS : DirectionButton(d) /\ ticks' = 0 /\ UNCHANGED fontVars
    \/ PauseResetButton /\ ticks' = 0 /\ UNCHANGED fontVars
    \/ MoveButton /\ TickCounted /\ UNCHANGED fontVars

\* ------------------------------------------------------- opengraph-image.tsx

\* join(process.cwd(), "public/fonts/Nunito-Regular.ttf")
RegularPath == [dir |-> "cwd/public/fonts", name |-> "Nunito-Regular.ttf"]

\* join(process.cwd(), "public/fonts/Nunito-SemiBold.ttf")
SemiBoldPath == [dir |-> "cwd/public/fonts", name |-> "Nunito-SemiBold.ttf"]

\* join(__dirname, "..", "..", "public", "fonts", fontPath.split("/").pop())
FallbackPath(fontPath) == [dir |-> "__dirname/../../public/fonts", name |-> fontPath.name]

Paths == {RegularPath, SemiBoldPath, FallbackPath(RegularPath), FallbackPath(SemiBoldPath)}

\* what readFileSync can throw with
Causes == {"ENOENT", "EACCES"}

\* a path holds bytes or makes readFileSync throw
FileStates ==
    {[ok |-> TRUE, data |-> b, cause |-> "none"] : b \in 1..FontVersions}
    \cup {[ok |-> FALSE, data |-> 0, cause |-> c] : c \in Causes}

readFileSync(path) == files[path]

\* mutant: the error of the fallback read is reported
loadFontReportsFallbackError(fontPath) ==
    LET first == readFileSync(fontPath)
        second == readFileSync(FallbackPath(fontPath))
    IN  IF first.ok
        THEN [ok |-> TRUE, data |-> first.data, path |-> fontPath, cause |-> "none",
              read |-> <<fontPath>>]
        ELSE IF second.ok
        THEN [ok |-> TRUE, data |-> second.data, path |-> fontPath, cause |-> "none",
              read |-> <<fontPath, FallbackPath(fontPath)>>]
        ELSE [ok |-> FALSE, data |-> 0, path |-> fontPath, cause |-> second.cause,
              read |-> <<fontPath, FallbackPath(fontPath)>>]

\* the bytes loadFont(fontPath) resolves to, or the Error it rejects with
\* (`Failed to load font ${fontPath}: ${error}`), and the paths it read
loadFont(fontPath) ==
    LET first == readFileSync(fontPath)
        second == readFileSync(FallbackPath(fontPath))
    IN  IF first.ok
        THEN [ok |-> TRUE, data |-> first.data, path |-> fontPath, cause |-> "none",
              read |-> <<fontPath>>]
        ELSE IF second.ok
        THEN [ok |-> TRUE, data |-> second.data, path |-> fontPath, cause |-> "none",
              read |-> <<fontPath, FallbackPath(fontPath)>>]
        ELSE [ok |-> FALSE, data |-> 0, path |-> fontPath, cause |-> first.cause,
              read |-> <<fontPath, FallbackPath(fontPath)>>]

\* let imageOptions: any = null
NullOptions == [set |-> FALSE, width |-> 0, height |-> 0, regular |-> 0, semiBold |-> 0]

\* imageOptions = {width: 1200, height: 800, fonts: [regular 400, semi-bold 600]}
Options(regular, semiBold) ==
    [set |-> TRUE, width |-> 1200, height |-> 800, regular |-> regular, semiBold |-> semiBold]

NoPath == [dir |-> "", name |-> ""]

NoOutcome == [kind |-> "none", options |-> NullOptions, path |-> NoPath, cause |-> "none"]

Pending == [kind |-> "pending", options |-> NullOptions, path |-> NoPath, cause |-> "none"]

Returned(options) == [kind |-> "options", options |-> options, path |-> NoPath, cause |-> "none"]

Thrown(loaded) == [kind |-> "error", options |-> NullOptions, path |-> loaded.path, cause |-> loaded.cause]

\* the module as it is loaded
ModuleInit ==
    /\ imageOptions = NullOptions
    /\ pc = "idle"
    /\ regularFont = 0
    /\ reads = <<>>
    /\ outcome = NoOutcome

\* mutant: the cache is never found set
CachedNever == FALSE

\* if (imageOptions) return imageOptions
Cached == imageOptions.set

\* Image() is called: initializeFonts returns the cache or starts loading; the
\* body of loadFont for the regular font runs before the first await yields
Image ==
    /\ pc = "idle"
    /\ IF Cached
       THEN /\ outcome' = Returned(imageOptions)
            /\ reads' = <<>>
            /\ UNCHANGED <<files, imageOptions, pc, regularFont>>
       ELSE LET loaded == loadFont(RegularPath)
            IN  /\ reads' = loaded.read
                /\ IF loaded.ok
                   THEN /\ regularFont' = loaded.data
                        /\ pc' = "semiBold"
                        /\ outcome' = Pending
                   ELSE /\ outcome' = Thrown(loaded)
                        /\ UNCHANGED <<pc, regularFont>>
                /\ UNCHANGED <<files, imageOptions>>

\* mutant: the cache is assigned whatever the second load gave
LoadSemiBoldCachingEarly ==
    /\ pc = "semiBold"
    /\ LET loaded == loadFont(SemiBoldPath)
       IN  /\ reads' = reads \o loaded.read
           /\ imageOptions' = Options(regularFont, loaded.data)
           /\ IF loaded.ok
              THEN /\ outcome' = Returned(Options(regularFont, loaded.data))
                   /\ pc' = "idle"
                   /\ regularFont' = 0
              ELSE /\ outcome' = Thrown(loaded)
                   /\ pc' = "idle"
                   /\ regularFont' = 0
    /\ UNCHANGED files

\* the first await resumes: loadFont for the semi-bold font, then the
\* assignment of imageOptions and the return
LoadSemiBold ==
    /\ pc = "semiBold"
    /\ LET loaded == loadFont(SemiBoldPath)
       IN  /\ reads' = reads \o loaded.read
           /\ IF loaded.ok
              THEN /\ imageOptions' = Options(regularFont, loaded.data)
                   /\ outcome' = Returned(Options(regularFont, loaded.data))
                   /\ pc' = "idle"
                   /\ regularFont' = 0
              ELSE /\ outcome' = Thrown(loaded)
                   /\ pc' = "idle"
                   /\ regularFont' = 0
                   /\ UNCHANGED imageOptions
    /\ UNCHANGED files

\* the file system changes under the server
ChangeFile ==
    /\ \E path \in Paths, state \in FileStates : files' = [files EXCEPT ![path] = state]
    /\ UNCHANGED <<imageOptions, pc, regularFont, reads, outcome>>

FontNext ==
    \/ Image /\ UNCHANGED <<vars, ticks>>
    \/ LoadSemiBold /\ UNCHANGED <<vars, ticks>>
    \/ ChangeFile /\ UNCHANGED <<vars, ticks>>

\* ----------------------------------------------------------- specifications

\* the font files as installed, for the specifications of the game
InstalledFiles == [path \in Paths |-> [ok |-> TRUE, data |-> 1, cause |-> "none"]]

\* the component mounted; the image route loaded and left alone
GameInit == Init /\ ModuleInit /\ files = InstalledFiles /\ ticks = 0

\* the image route loaded over any file system; the component left alone
FontInit == Init /\ ModuleInit /\ files \in [Paths -> FileStates] /\ ticks = 0

\* the component as the user drives it
Spec == GameInit /\ [][Next]_allVars

\* the four handlers called in any order, in any state
HandlerSpec == GameInit /\ [][HandlerNext]_allVars

\* the component as the user drives it, the ticks in a row counted
TickSpec == GameInit /\ [][TickNext]_allVars

\* the image route: calls of Image() one after the other
FontSpec == FontInit /\ [][FontNext]_allVars

\* ------------------------------------------------------------------ claims

\* the cells of a snake
Cells(s) == {s[i] : i \in 1..Len(s)}

NoDuplicateCells(s) == \A i, j \in 1..Len(s) : i # j => s[i] # s[j]

\* C1: in every reachable state the snake has no duplicate cell, and a tick in
\* status RUNNING whose candidate head is a cell of the snake sets the status
\* to OVER and leaves the snake as it was.
C1_NoDuplicateCells ==
    /\ []NoDuplicateCells(snake)
    /\ [][(MoveButton /\ ~gameOver /\ ~isPaused /\ NewHead \in Cells(snake))
          => (gameOver' /\ snake' = snake)]_vars

\* the game is over with the head of a four-cell snake facing its own tail:
\* the state a tick onto the tail leaves
C1_Witness ==
    /\ gameOver
    /\ Len(snake) = 4
    /\ NewHead = snake[4]
    /\ NoDuplicateCells(snake)

\* C2: in every reachable state with at least two snake cells the candidate
\* head (head + direction) is not the neck, the second cell.
C2_NeverFacesNeck == Len(snake) >= 2 => NewHead # snake[2]

\* C3: a tick in status RUNNING whose candidate head is in the grid and off the
\* snake prepends the head; on the food the snake keeps every cell and the
\* score grows by 10, elsewhere the last cell is dropped and score and food stay.
C3_TickMovesOrGrows ==
    [][(/\ MoveButton
        /\ ~gameOver /\ ~isPaused
        /\ NewHead.x \in 0..14 /\ NewHead.y \in 0..14
        /\ NewHead \notin Cells(snake))
       => IF NewHead = food
          THEN /\ snake' = <<NewHead>> \o snake
               /\ Len(snake') = Len(snake) + 1
               /\ score' = score + 10
          ELSE /\ snake' = <<NewHead>> \o SubSeq(snake, 1, Len(snake) - 1)
               /\ Len(snake') = Len(snake)
               /\ score' = score
               /\ food' = food]_vars

\* the state the tick that eats the first food leaves: the head on the cell
\* the food was on, four cells, score 10, a new food
C3_Witness ==
    /\ snake = <<[x |-> 10, y |-> 7], [x |-> 9, y |-> 7], [x |-> 8, y |-> 7], [x |-> 7, y |-> 7]>>
    /\ score = 10
    /\ food # [x |-> 10, y |-> 7]
    /\ ~gameOver

\* C4: a tick in status RUNNING whose candidate head is outside the grid sets
\* the status to OVER and leaves snake, food, score and direction as they were.
C4_WallTickOnlyEndsGame ==
    [][(/\ MoveButton
        /\ ~gameOver /\ ~isPaused
        /\ (NewHead.x \notin 0..14 \/ NewHead.y \notin 0..14))
       => (gameOver' /\ UNCHANGED <<snake, food, score, direction>>)]_vars

\* the game is over with the head in column 14 facing the right wall: the
\* state a tick into the wall leaves
C4_Witness ==
    /\ gameOver
    /\ snake[1].x = 14
    /\ direction = RIGHT
    /\ \A i \in 1..Len(snake) : snake[i].x \in 0..14 /\ snake[i].y \in 0..14

\* C5: a tick applied in status PAUSED or OVER changes nothing.
C5_HaltedTickChangesNothing ==
    [][(moveSnake /\ (isPaused \/ gameOver)) => UNCHANGED vars]_vars

\* a paused game with a food eaten and a free cell ahead of the head, where a
\* tick would move the snake were the game running
C5_Witness ==
    /\ isPaused /\ ~gameOver
    /\ score = 10
    /\ NewHead.x \in 0..14 /\ NewHead.y \in 0..14
    /\ NewHead \notin Cells(snake)
    /\ NewHead # food

\* C6: in every reachable state the snake has at least one cell and each two
\* adjacent cells differ by one unit step in exactly one axis.
C6_ContiguousPath ==
    /\ Len(snake) >= 1
    /\ \A i \in 1..(Len(snake) - 1) :
          \/ snake[i].x = snake[i + 1].x /\ snake[i].y - snake[i + 1].y \in {-1, 1}
          \/ snake[i].y = snake[i + 1].y /\ snake[i].x - snake[i + 1].x \in {-1, 1}

\* a four-cell snake that has turned twice
C6_Witness ==
    /\ Len(snake) = 4
    /\ snake[1].x # snake[3].x /\ snake[1].y # snake[3].y
    /\ snake[2].x # snake[4].x /\ snake[2].y # snake[4].y

\* C7: once the status is OVER, every operation but reset leaves the status
\* OVER and snake, food and score unchanged.
C7_OverIsTerminal ==
    [][(gameOver /\ ~resetGame)
       => (gameOver' /\ UNCHANGED <<snake, food, score>>)]_vars

\* the game is over, yet paused and with a free cell ahead of the head:
\* togglePause and a direction request were applied after the game ended
C7_Witness ==
    /\ gameOver /\ isPaused
    /\ NewHead.x \in 0..14 /\ NewHead.y \in 0..14
    /\ NewHead \notin Cells(snake)

\* C8: reset yields score 0, status RUNNING, the snake [(7,7),(6,7),(5,7)] and
\* direction RIGHT, whatever the state it is applied in.
C8_ResetRestoresInitial ==
    [][resetGame
       => /\ score' = 0
          /\ ~gameOver' /\ ~isPaused'
          /\ snake' = <<[x |-> 7, y |-> 7], [x |-> 6, y |-> 7], [x |-> 5, y |-> 7]>>
          /\ direction' = [x |-> 1, y |-> 0]]_vars

\* the state a reset leaves: the initial game but for the food, which only
\* generateFood places elsewhere than (10,7)
C8_Witness ==
    /\ snake = InitialSnake
    /\ direction = RIGHT
    /\ score = 0
    /\ ~gameOver /\ ~isPaused
    /\ food # InitialFood

\* C9: a direction request made while the status is OVER changes nothing, and
\* the direction is not replaced for as long as the game stays over.
C9_NoTurnWhenOver ==
    [][/\ (gameOver /\ \E d \in DIRECTIONS : DirectionButton(d)) => UNCHANGED vars
       /\ (gameOver /\ gameOver') => direction' = direction]_vars

\* the game ended by a turn back onto the neck; the direction buttons are
\* disabled here
C9_Witness ==
    /\ gameOver
    /\ Len(snake) = 3
    /\ NewHead = snake[2]

\* C10: a direction request changes neither snake, food, score nor status,
\* changes nothing when it asks for the opposite of the current direction, and
\* asked a second time leaves the state the first request left.
C10_DirectionRequest ==
    [][\A d \in DIRECTIONS :
          DirectionButton(d)
          => /\ UNCHANGED <<snake, food, score, gameOver, isPaused>>
             /\ (d.x = -direction.x /\ d.y = -direction.y) => direction' = direction
             /\ (IF DirectionDisabled' THEN direction' ELSE Turned(direction', d))
                   = direction']_vars

\* a running game whose snake last moved right and now heads up: a direction
\* request has acted since the last tick
C10_Witness ==
    /\ ~gameOver /\ ~isPaused
    /\ Len(snake) = 4
    /\ snake[1].x = snake[2].x + 1
    /\ direction = UP

\* C11: togglePause turns the status RUNNING into PAUSED and PAUSED into
\* RUNNING, leaves the status OVER when the game is over, and never changes
\* snake, food, score or direction.
C11_TogglePause ==
    /\ [](Status = "RUNNING" => ENABLED (togglePause /\ Status' = "PAUSED"))
    /\ [](Status = "PAUSED" => ENABLED (togglePause /\ Status' = "RUNNING"))
    /\ [][togglePause
          => /\ UNCHANGED <<snake, food, score, direction>>
             /\ Status = "RUNNING" => Status' = "PAUSED"
             /\ Status = "PAUSED" => Status' = "RUNNING"
             /\ Status = "OVER" => Status' = "OVER"]_vars

\* the game ended at a wall and togglePause was applied afterwards
C11_Witness ==
    /\ Status = "OVER"
    /\ isPaused
    /\ NewHead.x \notin 0..14 \/ NewHead.y \notin 0..14

\* C12: the status changes only from RUNNING to PAUSED and back by
\* togglePause, from RUNNING to OVER by a tick that collides, and to RUNNING
\* by reset, which is enabled in every status and leaves a fresh game.
C12_StatusTransitions ==
    /\ [](ENABLED resetGame)
    /\ [][/\ Status' # Status
             => \/ Status = "RUNNING" /\ Status' = "PAUSED" /\ togglePause
                \/ Status = "PAUSED" /\ Status' = "RUNNING" /\ (togglePause \/ resetGame)
                \/ /\ Status = "RUNNING" /\ Status' = "OVER"
                   /\ moveSnake
                   /\ \/ NewHead.x \notin 0..14
                      \/ NewHead.y \notin 0..14
                      \/ NewHead \in Cells(snake)
                \/ Status = "OVER" /\ Status' = "RUNNING" /\ resetGame
          /\ resetGame
             => Status' = "RUNNING" /\ score' = 0 /\ Len(snake') = 3]_vars

\* a second game, started by a reset, has ended at a wall
C12_Witness ==
    /\ Status = "OVER"
    /\ food # InitialFood
    /\ score = 0
    /\ NewHead.x \notin 0..14 \/ NewHead.y \notin 0..14
    /\ ~isPaused

\* C13: a food cell is never on the snake when it is placed: not at the start,
\* not after the snake eats, not on reset.
C13_FoodPlacedOffSnake ==
    /\ InitialFood \notin Cells(InitialSnake)
    /\ [][(resetGame \/ score' = score + 10) => food' \notin Cells(snake')]_vars

C17_ScoreCountsGrowth == score = 10 * (Len(snake) - 3)

\* the head is on (0,0) with one food eaten: the food of a game that a reset
\* started, after the score went back to 0
C17_Witness ==
    /\ score = 10
    /\ Len(snake) = 4
    /\ snake[1] = [x |-> 0, y |-> 0]

\* C18: through the controls the game is never over and paused at once.
C18_NeverOverAndPaused == ~(gameOver /\ isPaused)

\* a paused game whose head faces a wall
C18_Witness ==
    /\ isPaused
    /\ NewHead.x \notin 0..14 \/ NewHead.y \notin 0..14

\* C14: loadFont(path) gives the bytes at the primary path when that read
\* succeeds, otherwise the bytes at the fallback path (same file name, under
\* __dirname/../../public/fonts); it fails only when both reads fail, the
\* failure names the primary path and the cause of the primary read's failure,
\* and nothing is read after the fallback.
C14_LoadFont ==
    [][/\ (Image /\ ~imageOptions.set)
          => LET primary == files[[dir |-> "cwd/public/fonts", name |-> "Nunito-Regular.ttf"]]
                 fallback == files[[dir |-> "__dirname/../../public/fonts",
                                    name |-> "Nunito-Regular.ttf"]]
             IN  /\ primary.ok
                    => /\ regularFont' = primary.data /\ outcome'.kind = "pending"
                       /\ Len(reads') = 1
                 /\ ~primary.ok /\ fallback.ok
                    => /\ regularFont' = fallback.data /\ outcome'.kind = "pending"
                       /\ Len(reads') = 2 /\ reads'[2].dir = "__dirname/../../public/fonts"
                 /\ ~primary.ok /\ ~fallback.ok
                    => /\ outcome'.kind = "error"
                       /\ outcome'.path = [dir |-> "cwd/public/fonts", name |-> "Nunito-Regular.ttf"]
                       /\ outcome'.cause = primary.cause
                       /\ Len(reads') = 2
       /\ LoadSemiBold
          => LET primary == files[[dir |-> "cwd/public/fonts", name |-> "Nunito-SemiBold.ttf"]]
                 fallback == files[[dir |-> "__dirname/../../public/fonts",
                                    name |-> "Nunito-SemiBold.ttf"]]
             IN  /\ primary.ok
                    => /\ outcome'.kind = "options" /\ outcome'.options.semiBold = primary.data
                       /\ Len(reads') = Len(reads) + 1
                 /\ ~primary.ok /\ fallback.ok
                    => /\ outcome'.kind = "options" /\ outcome'.options.semiBold = fallback.data
                       /\ Len(reads') = Len(reads) + 2
                 /\ ~primary.ok /\ ~fallback.ok
                    => /\ outcome'.kind = "error"
                       /\ outcome'.path = [dir |-> "cwd/public/fonts", name |-> "Nunito-SemiBold.ttf"]
                       /\ outcome'.cause = primary.cause
                       /\ Len(reads') = Len(reads) + 2]_allVars

\* the regular font came from the fallback path; the semi-bold font failed at
\* both paths with different causes, and the primary one is reported
C14_Witness ==
    /\ outcome.kind = "error"
    /\ outcome.path = SemiBoldPath
    /\ outcome.cause = "EACCES"
    /\ files[FallbackPath(SemiBoldPath)].cause = "ENOENT"
    /\ Len(reads) = 4

\* C15: the cache is set only by an initializeFonts() that loaded both fonts,
\* to the options that call returns; once set it never changes, and every
\* Image() called while it is set returns it and reads no file.
C15_CacheReused ==
    [][/\ imageOptions.set => imageOptions' = imageOptions
       /\ (~imageOptions.set /\ imageOptions'.set)
          => /\ LoadSemiBold
             /\ outcome'.kind = "options"
             /\ outcome'.options = imageOptions'
             /\ imageOptions'.regular = regularFont
       /\ (Image /\ imageOptions.set)
          => /\ outcome'.kind = "options"
             /\ outcome'.options = imageOptions
             /\ reads' = <<>>
             /\ pc' = "idle"]_allVars

\* the cached options were returned without a read while no path of the
\* regular font could be read any more
C15_Witness ==
    /\ outcome.kind = "options"
    /\ outcome.options = imageOptions
    /\ reads = <<>>
    /\ ~files[RegularPath].ok
    /\ ~files[FallbackPath(RegularPath)].ok

\* C19: a running game that only receives ticks is over after at most 15 of
\* them: no game is still running after 15 ticks in a row.
C19_OverWithinFifteenTicks == ticks >= 15 => Status = "OVER"

\* a game that ended at the fifteenth tick in a row
C19_Witness == ticks = 15 /\ gameOver /\ snake[1].x = 14 /\ direction = RIGHT

\* C20: a failed initializeFonts() leaves the cache unset, the cache never
\* holds one font without the other, and the Image() that follows a failure
\* reads the fonts again, starting at the primary path of the regular font.
C20_FailureNotCached ==
    /\ [](imageOptions.set => imageOptions.regular >= 1 /\ imageOptions.semiBold >= 1)
    /\ [][/\ ((Image \/ LoadSemiBold) /\ outcome'.kind = "error")
             => imageOptions' = NullOptions
          /\ (Image /\ outcome.kind = "error")
             => /\ Len(reads') >= 1
                /\ reads'[1] = RegularPath
                /\ outcome'.kind \in {"pending", "error"}]_allVars

\* the regular font was loaded, the semi-bold font failed, nothing is cached
C20_Witness ==
    /\ outcome.kind = "error"
    /\ outcome.path = SemiBoldPath
    /\ reads = <<RegularPath, SemiBoldPath, FallbackPath(SemiBoldPath)>>
    /\ imageOptions = NullOptions

====
